---- MODULE Spec2Model ----
(***************************************************************************)
(* The schedule lifecycle of the caregiver backend: the schedule use case  *)
(* (ScheduleUseCase), the gorm repository it writes through (Repository)   *)
(* and the request checks of the REST controller (Controller).             *)
(*                                                                         *)
(* Time is 1..MaxTime; 0 stands for Go's zero time.Time in a request and   *)
(* for a nil *time.Time / *float64 column in the store.  A uuid is a       *)
(* number, 0 being uuid.Nil.  Reads of the store succeed; a write          *)
(* (Updates, Create) may fail, which the `fault` input of an operation     *)
(* chooses.                                                                *)
(*                                                                         *)
(* Spec explores one schedule with every input (scope "one"); SpecPair     *)
(* explores NumSchedules schedules with one location, one feedback text,   *)
(* the slot [MaxTime, MaxTime] and single-field update requests (scope     *)
(* "pair"); SpecTasks explores one schedule of up to MaxTasks tasks with   *)
(* check-outs of up to MaxTaskUpdates task updates and UpdateTaskStatus    *)
(* (scope "tasks"; elsewhere a schedule has one task and a check-out       *)
(* submits at most one), and keeps in `call` the arguments of the last     *)
(* call when it was a successful EndSchedule or UpdateTaskStatus; SpecConc *)
(* interleaves StartSchedule calls at the granularity of their store       *)
(* calls.                                                                  *)
(***************************************************************************)
EXTENDS Integers, Sequences, FiniteSets, TLC

VARIABLES schedules, tasks, last, pc, call, scope

vars == <<schedules, tasks, last, pc, call, scope>>

(* ------------------------------ bounds -------------------------------- *)

NumSchedules == 2
MaxTime == 2
MaxTasks == 2

(* ------------------------------ domains ------------------------------- *)

ScheduleIDs == 1..NumSchedules
Times == 1..MaxTime
TaskIDs == 1..(NumSchedules * MaxTasks)

\* The user directory: users 1 and 2 exist, user 3 does not.
Users == {1, 2}
UserIDs == {1, 2, 3}

Locations == {[Lat |-> 1, Long |-> 1], [Lat |-> 2, Long |-> 2]}
ServiceNames == {"care"}

ValidStatuses == {"upcoming", "in_progress", "completed", "cancelled"}
StatusLabels == ValidStatuses \cup {"invalid_status"}

NoError == [kind |-> "ok", msg |-> ""]
AppError(kind, msg) == [kind |-> kind, msg |-> msg]

EmptyMap == [k \in {} |-> 0]
Entry(present, k, v) == IF present THEN k :> v ELSE EmptyMap

(* ----------------------------- repository ----------------------------- *)

\* gorm: Model(&row).Updates(map) overwrites exactly the columns the map names.
ApplyUpdates(row, updates) ==
    [k \in DOMAIN row |-> IF k \in DOMAIN updates THEN updates[k] ELSE row[k]]

RepoUpdateSchedule(store, id, updates) ==
    [store EXCEPT ![id] = ApplyUpdates(@, updates)]

GetSchedulesInProgressByClientUserID(store, assignedUserID) ==
    {id \in DOMAIN store :
        /\ store[id].client_user_id = assignedUserID
        /\ store[id].visit_status = "in_progress"}

\* WHERE assigned_user_id = ? AND visit_status = 'in_progress'
GetSchedulesInProgressByAssignedUserID(store, assignedUserID) ==
    {id \in DOMAIN store :
        /\ store[id].assigned_user_id = assignedUserID
        /\ store[id].visit_status = "in_progress"}

\* gorm resolves a key of an update map by the field's name or by its column.
LookUpField(name) ==
    CASE name = "Status" -> "status"
      [] name = "Done" -> "done"
      [] name = "Feedback" -> "feedback"
      [] OTHER -> name

ByColumn(updates) ==
    [c \in {LookUpField(k) : k \in DOMAIN updates} |->
        updates[CHOOSE k \in DOMAIN updates : LookUpField(k) = c]]

\* A store that resets to its created state a task whose row already holds the
\* values written.
RepoUpdateTaskResettingRepeats(tstore, taskID, updates) ==
    IF taskID \notin DOMAIN tstore
    THEN tstore
    ELSE IF ApplyUpdates(tstore[taskID], ByColumn(updates)) = tstore[taskID]
    THEN [tstore EXCEPT ![taskID] =
            [@ EXCEPT !.status = "pending", !.done = "nil", !.feedback = "nil"]]
    ELSE [tstore EXCEPT ![taskID] = ApplyUpdates(@, ByColumn(updates))]

\* UPDATE tasks ... WHERE id = taskID touches no row when the task is absent;
\* the First that follows then fails with ErrRecordNotFound.
RepoUpdateTask(tstore, taskID, updates) ==
    IF taskID \in DOMAIN tstore
    THEN [tstore EXCEPT ![taskID] = ApplyUpdates(@, ByColumn(updates))]
    ELSE tstore

\* 24 * time.Hour, in units of Times.
DayLength == 2

\* filters.PageSize < 1: the page size of a search that names none.
DefaultPageSize == 10

\* time.Now().Truncate(24 * time.Hour): the start of the UTC day of now.
Truncate(now) == now - (now % DayLength)

\* time.Date(now.Year(), now.Month(), now.Day(), 0, ...) in now.Location(),
\* which is `zone` ahead of UTC.
LocalDayStart(now, zone) == now - ((now + zone) % DayLength)

RepoGetSchedules(store) == DOMAIN store

RepoGetTodaySchedules(store, userID, now) ==
    {id \in DOMAIN store :
        /\ store[id].client_user_id = userID
        /\ store[id].scheduled_slot_from >= Truncate(now)
        /\ store[id].scheduled_slot_from < Truncate(now) + DayLength}

\* The rows a search by assigned user selects before Offset and Limit.
SchedulesByAssignedUserID(store, assignedUserID, start, end) ==
    {id \in DOMAIN store :
        /\ store[id].assigned_user_id = assignedUserID
        /\ store[id].scheduled_slot_from >= start
        /\ store[id].scheduled_slot_from <= end}

\* Offset(0).Limit(pageSize) without ORDER BY: the pages the database may
\* answer, any pageSize of the selected rows when there are more.
RepoGetSchedulesByAssignedUserIDPaginated(store, assignedUserID, start, end, pageSize) ==
    LET selected == SchedulesByAssignedUserID(store, assignedUserID, start, end)
        limit == IF pageSize < 1 THEN DefaultPageSize ELSE pageSize
    IN IF Cardinality(selected) <= limit
       THEN {selected}
       ELSE {page \in SUBSET selected : Cardinality(page) = limit}

GetByIDAlwaysFound(userID) == TRUE

GetByID(userID) == userID \in Users

(* ------------------------------ use case ------------------------------ *)

Result(err, store, tstore, wrote) ==
    [err |-> err, schedules |-> store, tasks |-> tstore, wrote |-> wrote]

Rejected(err, store, tstore) == Result(err, store, tstore, FALSE)

NotUpcomingInProgressOnly(schedule) == schedule.visit_status = "in_progress"

NotUpcoming(schedule) == schedule.visit_status # "upcoming"

StartTooEarlyOrAtStart(timestamp, schedule) == timestamp <= schedule.scheduled_slot_from

\* timestamp.Before(schedule.ScheduledSlot.From)
StartTooEarly(timestamp, schedule) == timestamp < schedule.scheduled_slot_from

AnotherInProgressIgnored(schedulesInProgress) == FALSE

\* schedulesInProgress != nil && len(*schedulesInProgress) > 0
AnotherInProgress(schedulesInProgress) == schedulesInProgress # {}

\* What StartSchedule answers once it has read the schedule: the error of its
\* status and time checks, or NoError.
StartChecks(schedule, timestamp) ==
    IF NotUpcoming(schedule)
    THEN AppError("ValidationError", "not_upcoming")
    ELSE IF StartTooEarly(timestamp, schedule)
    THEN AppError("ValidationError", "before_start")
    ELSE NoError

StartUpdatesWithoutLocation(timestamp, location) ==
    [visit_status |-> "in_progress", checkin_time |-> timestamp]

StartUpdates(timestamp, location) ==
    [visit_status |-> "in_progress",
     checkin_time |-> timestamp,
     checkin_location_lat |-> location.Lat,
     checkin_location_long |-> location.Long]

StartScheduleOp(store, tstore, scheduleID, timestamp, location, fault) ==
    IF scheduleID \notin DOMAIN store
    THEN Rejected(AppError("NotFound", ""), store, tstore)
    ELSE LET schedule == store[scheduleID] IN
      IF StartChecks(schedule, timestamp) # NoError
      THEN Rejected(StartChecks(schedule, timestamp), store, tstore)
      ELSE IF AnotherInProgress(
                GetSchedulesInProgressByAssignedUserID(store, schedule.assigned_user_id))
      THEN Rejected(AppError("ValidationError", "in_progress_exists"), store, tstore)
      ELSE IF fault
      THEN Result(AppError("UnknownError", ""), store, tstore, TRUE)
      ELSE Result(NoError,
                  RepoUpdateSchedule(store, scheduleID, StartUpdates(timestamp, location)),
                  tstore, TRUE)

NotInProgressUnlessUpcoming(schedule) ==
    schedule.visit_status \notin {"in_progress", "upcoming"}

NotInProgressUnlessCompleted(schedule) ==
    schedule.visit_status \notin {"in_progress", "completed"}

NotInProgress(schedule) == schedule.visit_status # "in_progress"

EndUpdates(timestamp, location) ==
    [visit_status |-> "completed",
     checkout_time |-> timestamp,
     checkout_location_lat |-> location.Lat,
     checkout_location_long |-> location.Long]

TaskUpdatesWithoutFeedback(task) ==
    [status |-> task.Status, done |-> task.Done]

TaskUpdates(task) ==
    [status |-> task.Status, done |-> task.Done, feedback |-> task.Feedback]

\* A loop that returns at the first task whose update fails.
RECURSIVE UpdateTasksUntilError(_, _, _, _)
UpdateTasksUntilError(tstore, taskList, taskFaults, i) ==
    IF i > Len(taskList) \/ i \in taskFaults \/ taskList[i].ID \notin DOMAIN tstore
    THEN tstore
    ELSE UpdateTasksUntilError(
            RepoUpdateTask(tstore, taskList[i].ID, TaskUpdates(taskList[i])),
            taskList, taskFaults, i + 1)

\* The loop of EndSchedule over the submitted tasks, from the i-th on: a task
\* whose UpdateTask fails (taskFaults) is logged and skipped.
RECURSIVE UpdateTasksFrom(_, _, _, _)
UpdateTasksFrom(tstore, taskList, taskFaults, i) ==
    IF i > Len(taskList)
    THEN tstore
    ELSE UpdateTasksFrom(
            IF i \in taskFaults
            THEN tstore
            ELSE RepoUpdateTask(tstore, taskList[i].ID, TaskUpdates(taskList[i])),
            taskList, taskFaults, i + 1)

\* EndSchedule updating the tasks before it writes the schedule.
EndScheduleOpTasksFirst(store, tstore, scheduleID, timestamp, location, taskList, fault, taskFaults) ==
    IF scheduleID \notin DOMAIN store
    THEN Rejected(AppError("NotFound", ""), store, tstore)
    ELSE LET schedule == store[scheduleID] IN
      IF NotInProgress(schedule)
      THEN Rejected(AppError("ValidationError", "not_in_progress"), store, tstore)
      ELSE IF fault
      THEN Result(AppError("UnknownError", ""), store,
                  UpdateTasksFrom(tstore, taskList, taskFaults, 1), TRUE)
      ELSE Result(NoError,
                  RepoUpdateSchedule(store, scheduleID, EndUpdates(timestamp, location)),
                  UpdateTasksFrom(tstore, taskList, taskFaults, 1),
                  TRUE)

EndScheduleOp(store, tstore, scheduleID, timestamp, location, taskList, fault, taskFaults) ==
    IF scheduleID \notin DOMAIN store
    THEN Rejected(AppError("NotFound", ""), store, tstore)
    ELSE LET schedule == store[scheduleID] IN
      IF NotInProgress(schedule)
      THEN Rejected(AppError("ValidationError", "not_in_progress"), store, tstore)
      ELSE IF fault
      THEN Result(AppError("UnknownError", ""), store, tstore, TRUE)
      ELSE Result(NoError,
                  RepoUpdateSchedule(store, scheduleID, EndUpdates(timestamp, location)),
                  UpdateTasksFrom(tstore, taskList, taskFaults, 1),
                  TRUE)

\* Preload("Tasks"): the tasks of a schedule as a read of the schedule holds them.
PreloadTasks(tstore, scheduleID) ==
    [t \in {t \in DOMAIN tstore : tstore[t].schedule_id = scheduleID} |-> tstore[t]]

\* The tasks of the schedule EndSchedule returns: updatedSchedule is what
\* UpdateSchedule read back after its write, before the loop over the tasks.
EndScheduleReturnedTasks(tstore, scheduleID) == PreloadTasks(tstore, scheduleID)

\* The calls EndSchedule makes on the schedule repository, in order.
EndScheduleCalls(store, scheduleID, taskList, fault) ==
    IF scheduleID \notin DOMAIN store \/ NotInProgress(store[scheduleID])
    THEN <<"GetScheduleByID">>
    ELSE IF fault
    THEN <<"GetScheduleByID", "UpdateSchedule">>
    ELSE <<"GetScheduleByID", "UpdateSchedule">>
         \o [i \in 1..Len(taskList) |-> "UpdateTask"]

TaskStatusUpdates(status, done, feedback) ==
    [Status |-> status, Done |-> done, Feedback |-> feedback]

\* UpdateTaskStatus refusing a task whose schedule is not in progress.
UpdateTaskStatusOpInProgressOnly(store, tstore, taskID, status, done, feedback, fault) ==
    IF fault
    THEN [err |-> AppError("UnknownError", ""), schedules |-> store, tasks |-> tstore,
          wrote |-> TRUE, task |-> EmptyMap]
    ELSE IF taskID \notin DOMAIN tstore
    THEN [err |-> AppError("ErrRecordNotFound", ""), schedules |-> store,
          tasks |-> tstore, wrote |-> TRUE, task |-> EmptyMap]
    ELSE IF store[tstore[taskID].schedule_id].visit_status # "in_progress"
    THEN [err |-> AppError("ValidationError", "not_in_progress"), schedules |-> store,
          tasks |-> tstore, wrote |-> FALSE, task |-> EmptyMap]
    ELSE LET updated == RepoUpdateTask(tstore, taskID,
                                       TaskStatusUpdates(status, done, feedback))
         IN [err |-> NoError, schedules |-> store, tasks |-> updated, wrote |-> TRUE,
             task |-> updated[taskID]]

\* UpdateTask answers the row it reads back; an absent task fails that read
\* with gorm's ErrRecordNotFound, handed on as it is.
UpdateTaskStatusOp(store, tstore, taskID, status, done, feedback, fault) ==
    IF fault
    THEN [err |-> AppError("UnknownError", ""), schedules |-> store, tasks |-> tstore,
          wrote |-> TRUE, task |-> EmptyMap]
    ELSE IF taskID \notin DOMAIN tstore
    THEN [err |-> AppError("ErrRecordNotFound", ""), schedules |-> store,
          tasks |-> tstore, wrote |-> TRUE, task |-> EmptyMap]
    ELSE LET updated == RepoUpdateTask(tstore, taskID,
                                       TaskStatusUpdates(status, done, feedback))
         IN [err |-> NoError, schedules |-> store, tasks |-> updated, wrote |-> TRUE,
             task |-> updated[taskID]]

\* The status rules refusing every status on a completed or cancelled schedule.
StatusChangeErrorOnTerminal(currentStatus, status) ==
    IF status \notin ValidStatuses THEN "invalid_status"
    ELSE IF currentStatus = "completed" THEN "from_completed"
    ELSE IF currentStatus = "cancelled" THEN "from_cancelled"
    ELSE ""

\* The status rules without the check of the label.
StatusChangeErrorAnyLabel(currentStatus, status) ==
    IF currentStatus = "completed" /\ status # "completed" THEN "from_completed"
    ELSE IF currentStatus = "cancelled" /\ status # "cancelled" THEN "from_cancelled"
    ELSE ""

StatusChangeErrorCompletedOnly(currentStatus, status) ==
    IF status \notin ValidStatuses THEN "invalid_status"
    ELSE IF currentStatus = "completed" /\ status # "completed" THEN "from_completed"
    ELSE ""

\* The status rules of UpdateSchedule: "" when the change is allowed, else
\* the message of the ValidationError.
StatusChangeError(currentStatus, status) ==
    IF status \notin ValidStatuses THEN "invalid_status"
    ELSE IF currentStatus = "completed" /\ status # "completed" THEN "from_completed"
    ELSE IF currentStatus = "cancelled" /\ status # "cancelled" THEN "from_cancelled"
    ELSE ""

\* UpdateSchedule writing the other fields of an update whose status it refuses.
UpdateScheduleOpWritingTheRest(store, tstore, scheduleID, updates, fault) ==
    IF scheduleID \notin DOMAIN store
    THEN Rejected(AppError("NotFound", "schedule"), store, tstore)
    ELSE LET existingSchedule == store[scheduleID] IN
      IF "client_user_id" \in DOMAIN updates /\ ~GetByID(updates["client_user_id"])
      THEN Rejected(AppError("NotFound", "client"), store, tstore)
      ELSE IF "assigned_user_id" \in DOMAIN updates /\ ~GetByID(updates["assigned_user_id"])
      THEN Rejected(AppError("NotFound", "assigned"), store, tstore)
      ELSE IF /\ "visit_status" \in DOMAIN updates
              /\ StatusChangeError(existingSchedule.visit_status, updates["visit_status"]) # ""
      THEN Result(AppError("ValidationError",
                           StatusChangeError(existingSchedule.visit_status,
                                             updates["visit_status"])),
                  RepoUpdateSchedule(store, scheduleID,
                                     [k \in DOMAIN updates \ {"visit_status"} |-> updates[k]]),
                  tstore, TRUE)
      ELSE IF fault
      THEN Result(AppError("UnknownError", ""), store, tstore, TRUE)
      ELSE Result(NoError, RepoUpdateSchedule(store, scheduleID, updates), tstore, TRUE)

\* UpdateSchedule without the lookup of the new assigned user.
UpdateScheduleOpTrustingAssignee(store, tstore, scheduleID, updates, fault) ==
    IF scheduleID \notin DOMAIN store
    THEN Rejected(AppError("NotFound", "schedule"), store, tstore)
    ELSE LET existingSchedule == store[scheduleID] IN
      IF "client_user_id" \in DOMAIN updates /\ ~GetByID(updates["client_user_id"])
      THEN Rejected(AppError("NotFound", "client"), store, tstore)
      ELSE IF /\ "visit_status" \in DOMAIN updates
              /\ StatusChangeError(existingSchedule.visit_status, updates["visit_status"]) # ""
      THEN Rejected(AppError("ValidationError",
                        StatusChangeError(existingSchedule.visit_status,
                                          updates["visit_status"])),
                    store, tstore)
      ELSE IF fault
      THEN Result(AppError("UnknownError", ""), store, tstore, TRUE)
      ELSE Result(NoError, RepoUpdateSchedule(store, scheduleID, updates), tstore, TRUE)

UpdateScheduleOp(store, tstore, scheduleID, updates, fault) ==
    IF scheduleID \notin DOMAIN store
    THEN Rejected(AppError("NotFound", "schedule"), store, tstore)
    ELSE LET existingSchedule == store[scheduleID] IN
      IF "client_user_id" \in DOMAIN updates /\ ~GetByID(updates["client_user_id"])
      THEN Rejected(AppError("NotFound", "client"), store, tstore)
      ELSE IF "assigned_user_id" \in DOMAIN updates /\ ~GetByID(updates["assigned_user_id"])
      THEN Rejected(AppError("NotFound", "assigned"), store, tstore)
      ELSE IF /\ "visit_status" \in DOMAIN updates
              /\ StatusChangeError(existingSchedule.visit_status, updates["visit_status"]) # ""
      THEN Rejected(AppError("ValidationError",
                        StatusChangeError(existingSchedule.visit_status,
                                          updates["visit_status"])),
                    store, tstore)
      ELSE IF fault
      THEN Result(AppError("UnknownError", ""), store, tstore, TRUE)
      ELSE Result(NoError, RepoUpdateSchedule(store, scheduleID, updates), tstore, TRUE)

\* gen_random_uuid(): an identifier no schedule has.
NewScheduleID(store) == Cardinality(DOMAIN store) + 1

MaxOf(S) == IF S = {} THEN 0 ELSE CHOOSE m \in S : \A x \in S : x <= m

SuppliedIDs(taskList) == {taskList[i].ID : i \in 1..Len(taskList)} \ {0}

\* uuid.New() for the i-th task of the list, which has no identifier: one that
\* no stored task has and no task of the list carries.
NewTaskID(tstore, taskList, i) ==
    MaxOf(DOMAIN tstore \cup SuppliedIDs(taskList))
    + Cardinality({j \in 1..i : taskList[j].ID = 0})

\* The loop of CreateSchedule over the tasks of the new schedule.
PreparedTasks(tstore, taskList) ==
    [i \in 1..Len(taskList) |->
        [ID |-> IF taskList[i].ID = 0 THEN NewTaskID(tstore, taskList, i)
                ELSE taskList[i].ID,
         Status |-> "pending"]]

\* fromDomainMapper: the row holds what the domain schedule holds.
NewScheduleRow(newSchedule) ==
    [client_user_id |-> newSchedule.ClientUserID,
     assigned_user_id |-> newSchedule.AssignedUserID,
     service_name |-> newSchedule.ServiceName,
     scheduled_slot_from |-> newSchedule.ScheduledSlot.From,
     scheduled_slot_to |-> newSchedule.ScheduledSlot.To,
     visit_status |-> newSchedule.VisitStatus,
     checkin_time |-> 0,
     checkout_time |-> 0,
     checkin_location_lat |-> 0,
     checkin_location_long |-> 0,
     checkout_location_lat |-> 0,
     checkout_location_long |-> 0]

NewTaskRow(scheduleID, task) ==
    [schedule_id |-> scheduleID, status |-> task.Status, done |-> "nil", feedback |-> "nil"]

\* DB.Create(scheduleModel): gorm inserts the schedule and then its tasks as an
\* association, INSERT ... ON CONFLICT (id), so a task whose identifier a stored
\* task already has is not inserted and raises no error: the stored row keeps
\* its columns, and whether its schedule_id is set to the new schedule (DO
\* UPDATE SET schedule_id) or left (DO NOTHING) depends on the gorm version,
\* which `reparent` chooses.
RepoCreate(store, tstore, newSchedule, reparent) ==
    LET id == NewScheduleID(store)
        taskList == newSchedule.Tasks
        ids == {taskList[i].ID : i \in 1..Len(taskList)}
        taskOf(t) == taskList[CHOOSE i \in 1..Len(taskList) : taskList[i].ID = t]
    IN [schedules |-> store @@ (id :> NewScheduleRow(newSchedule)),
        tasks |-> [t \in DOMAIN tstore \cup ids |->
                    IF t \notin DOMAIN tstore THEN NewTaskRow(id, taskOf(t))
                    ELSE IF t \in ids /\ reparent
                    THEN [tstore[t] EXCEPT !.schedule_id = id]
                    ELSE tstore[t]]]

CreateScheduleOp(store, tstore, newSchedule, fault, reparent) ==
    IF ~GetByID(newSchedule.ClientUserID)
    THEN Rejected(AppError("NotFound", "client"), store, tstore)
    ELSE IF ~GetByID(newSchedule.AssignedUserID)
    THEN Rejected(AppError("NotFound", "assigned"), store, tstore)
    ELSE IF fault
    THEN Result(AppError("UnknownError", ""), store, tstore, TRUE)
    ELSE LET created ==
                RepoCreate(store, tstore,
                           [newSchedule EXCEPT
                              !.VisitStatus = "upcoming",
                              !.Tasks = PreparedTasks(tstore, newSchedule.Tasks)],
                           reparent)
         IN Result(NoError, created.schedules, created.tasks, TRUE)

(* -------------------------- use case: reads --------------------------- *)

\* A *[]Schedule and a *[]User (or *User) as a read returns them: nil, or
\* the identifiers of the schedules, or the users in the order appended.
NullSchedules == [null |-> TRUE, ids |-> {}]
NullClients == [null |-> TRUE, list |-> <<>>]
SchedulesOf(ids) == [null |-> FALSE, ids |-> ids]
ClientsOf(list) == [null |-> FALSE, list |-> list]

\* What a read returns; `queried` tells whether it queried the schedule store.
ReadResult(err, found, clients, queried) ==
    [err |-> err, schedules |-> found, clients |-> clients, queried |-> queried]

\* userRepository.GetByID at a moment when the users of `unavailable` cannot
\* be read (deleted since, or the directory fails).
Lookup(userID, unavailable) == GetByID(userID) /\ userID \notin unavailable

\* One entry per schedule instead of one per distinct client.
ResolveClientsPerSchedule(store, ids, unavailable, order) ==
    LET byID == [i \in 1..Cardinality(DOMAIN store) |-> i]
        Kept(id) == id \in ids /\ Lookup(store[id].client_user_id, unavailable)
        kept == SelectSeq(byID, Kept)
    IN [i \in 1..Len(kept) |-> store[kept[i]].client_user_id]

\* The loop over the clientIDs map: it visits the distinct clients of the
\* schedules in the order `order` (Go leaves the order of a map open) and
\* appends those whose lookup succeeds.
ResolveClients(store, ids, unavailable, order) ==
    LET clientIDs == {store[id].client_user_id : id \in ids}
        Found(clientID) == clientID \in clientIDs /\ Lookup(clientID, unavailable)
    IN SelectSeq(order, Found)

\* The part the three multi-schedule enrichment reads share, after the read r
\* of the schedules.
WithClientInfo(r, store, unavailable, order) ==
    IF r.err # NoError
    THEN ReadResult(r.err, NullSchedules, NullClients, r.queried)
    ELSE IF r.schedules.null \/ r.schedules.ids = {}
    THEN ReadResult(NoError, r.schedules, ClientsOf(<<>>), r.queried)
    ELSE ReadResult(NoError, r.schedules,
                    ClientsOf(ResolveClients(store, r.schedules.ids, unavailable, order)),
                    r.queried)

\* GetTodaySchedules querying the store before it looks the user up.
GetTodaySchedulesOpQueryFirst(store, userID, now, absent) ==
    IF ~Lookup(userID, absent)
    THEN ReadResult(AppError("NotFound", "user"), NullSchedules, NullClients, TRUE)
    ELSE ReadResult(NoError, SchedulesOf(RepoGetTodaySchedules(store, userID, now)),
                    NullClients, TRUE)

GetTodaySchedulesOp(store, userID, now, absent) ==
    IF ~Lookup(userID, absent)
    THEN ReadResult(AppError("NotFound", "user"), NullSchedules, NullClients, FALSE)
    ELSE ReadResult(NoError, SchedulesOf(RepoGetTodaySchedules(store, userID, now)),
                    NullClients, TRUE)

\* The pages the search of GetTodaySchedulesByAssignedUserID may be answered.
TodayPages(store, assignedUserID, now, zone) ==
    RepoGetSchedulesByAssignedUserIDPaginated(store, assignedUserID,
                                              LocalDayStart(now, zone),
                                              LocalDayStart(now, zone) + DayLength - 1, 0)

\* `page` is the page of TodayPages the database answers.
GetTodaySchedulesByAssignedUserIDOp(store, assignedUserID, absent, page) ==
    IF ~Lookup(assignedUserID, absent)
    THEN ReadResult(AppError("NotFound", "assigned"), NullSchedules, NullClients, FALSE)
    ELSE ReadResult(NoError, SchedulesOf(page), NullClients, TRUE)

\* GetScheduleWithClientInfo failing when the lookup of the client fails.
GetScheduleWithClientInfoOpStrict(store, id, unavailable) ==
    IF id \notin DOMAIN store \/ ~Lookup(store[id].client_user_id, unavailable)
    THEN ReadResult(AppError("NotFound", ""), NullSchedules, NullClients, TRUE)
    ELSE ReadResult(NoError, SchedulesOf({id}),
                    ClientsOf(<<store[id].client_user_id>>), TRUE)

GetScheduleWithClientInfoOp(store, id, unavailable) ==
    IF id \notin DOMAIN store
    THEN ReadResult(AppError("NotFound", ""), NullSchedules, NullClients, TRUE)
    ELSE ReadResult(NoError, SchedulesOf({id}),
                    IF Lookup(store[id].client_user_id, unavailable)
                    THEN ClientsOf(<<store[id].client_user_id>>)
                    ELSE NullClients,
                    TRUE)

GetTodaySchedulesWithClientInfoOp(store, userID, now, absent, unavailable, order) ==
    WithClientInfo(GetTodaySchedulesOp(store, userID, now, absent),
                   store, unavailable, order)

GetTodaySchedulesByAssignedUserIDWithClientInfoOp(store, assignedUserID, absent, page, unavailable, order) ==
    WithClientInfo(GetTodaySchedulesByAssignedUserIDOp(store, assignedUserID, absent, page),
                   store, unavailable, order)

GetSchedulesWithClientInfoOp(store, unavailable, order) ==
    WithClientInfo(ReadResult(NoError, SchedulesOf(RepoGetSchedules(store)),
                              NullClients, TRUE),
                   store, unavailable, order)

(* ----------------------------- controller ----------------------------- *)

\* The schedule the controller hands to the use case: upcoming, its tasks
\* pending and without identifier.
ControllerNewSchedule(request) ==
    [ClientUserID |-> request.ClientUserID,
     AssignedUserID |-> request.AssignedUserID,
     ServiceName |-> request.ServiceName,
     ScheduledSlot |-> request.ScheduledSlot,
     VisitStatus |-> "upcoming",
     Tasks |-> [i \in 1..request.Tasks |-> [ID |-> 0, Status |-> "pending"]]]

\* CreateSchedule without the check that the request has a task.
ControllerCreateScheduleAnyTasks(store, tstore, request, fault, reparent) ==
    IF \/ request.ClientUserID = 0
       \/ request.AssignedUserID = 0
       \/ request.ServiceName = ""
    THEN Rejected(AppError("ValidationError", "binding"), store, tstore)
    ELSE IF request.ScheduledSlot.From = 0 \/ request.ScheduledSlot.To = 0
    THEN Rejected(AppError("ValidationError", "slot_required"), store, tstore)
    ELSE IF request.ScheduledSlot.From > request.ScheduledSlot.To
    THEN Rejected(AppError("ValidationError", "from_after_to"), store, tstore)
    ELSE CreateScheduleOp(store, tstore, ControllerNewSchedule(request), fault, reparent)

ControllerCreateSchedule(store, tstore, request, fault, reparent) ==
    IF \/ request.ClientUserID = 0
       \/ request.AssignedUserID = 0
       \/ request.ServiceName = ""
    THEN Rejected(AppError("ValidationError", "binding"), store, tstore)
    ELSE IF request.ScheduledSlot.From = 0 \/ request.ScheduledSlot.To = 0
    THEN Rejected(AppError("ValidationError", "slot_required"), store, tstore)
    ELSE IF request.ScheduledSlot.From > request.ScheduledSlot.To
    THEN Rejected(AppError("ValidationError", "from_after_to"), store, tstore)
    ELSE IF request.Tasks = 0
    THEN Rejected(AppError("ValidationError", "no_tasks"), store, tstore)
    ELSE CreateScheduleOp(store, tstore, ControllerNewSchedule(request), fault, reparent)

\* The update map the controller builds from an UpdateScheduleRequest: a
\* field left at its zero value is not forwarded.
ControllerUpdates(request) ==
    Entry(request.ClientUserID # 0, "client_user_id", request.ClientUserID)
    @@ Entry(request.AssignedUserID # 0, "assigned_user_id", request.AssignedUserID)
    @@ Entry(request.ServiceName # "", "service_name", request.ServiceName)
    @@ Entry(request.VisitStatus # "", "visit_status", request.VisitStatus)
    @@ Entry(request.ScheduledSlot.set, "scheduled_slot_from", request.ScheduledSlot.From)
    @@ Entry(request.ScheduledSlot.set, "scheduled_slot_to", request.ScheduledSlot.To)

\* UpdateSchedule without the check that From is not after To.
ControllerUpdateScheduleUnordered(store, tstore, scheduleID, request, fault) ==
    IF scheduleID \notin DOMAIN store
    THEN Rejected(AppError("NotFound", ""), store, tstore)
    ELSE IF /\ request.ScheduledSlot.set
            /\ (request.ScheduledSlot.From = 0 \/ request.ScheduledSlot.To = 0)
    THEN Rejected(AppError("ValidationError", "slot_required"), store, tstore)
    ELSE IF DOMAIN ControllerUpdates(request) = {}
    THEN Rejected(AppError("ValidationError", "no_fields"), store, tstore)
    ELSE UpdateScheduleOp(store, tstore, scheduleID, ControllerUpdates(request), fault)

ControllerUpdateSchedule(store, tstore, scheduleID, request, fault) ==
    IF scheduleID \notin DOMAIN store
    THEN Rejected(AppError("NotFound", ""), store, tstore)
    ELSE IF /\ request.ScheduledSlot.set
            /\ (request.ScheduledSlot.From = 0 \/ request.ScheduledSlot.To = 0)
    THEN Rejected(AppError("ValidationError", "slot_required"), store, tstore)
    ELSE IF /\ request.ScheduledSlot.set
            /\ request.ScheduledSlot.From > request.ScheduledSlot.To
    THEN Rejected(AppError("ValidationError", "from_after_to"), store, tstore)
    ELSE IF DOMAIN ControllerUpdates(request) = {}
    THEN Rejected(AppError("ValidationError", "no_fields"), store, tstore)
    ELSE UpdateScheduleOp(store, tstore, scheduleID, ControllerUpdates(request), fault)

(* ------------------------------ requests ------------------------------ *)

Rich == scope = "one"
Detailed == scope = "tasks"
Reading == scope = "reads"
Daily == scope = "day"
Racing == scope = "race"
Capacity ==
    IF Rich \/ Detailed \/ Racing THEN 1
    ELSE IF Daily THEN DefaultPageSize + 1 ELSE NumSchedules
LocationInputs == IF Rich THEN Locations ELSE {l \in Locations : l.Lat = 1}
TasksPerSchedule == IF Detailed THEN MaxTasks ELSE 1
TaskIDInputs == IF Detailed THEN 1..MaxTasks ELSE 1..NumSchedules
\* A request names client 1, who exists, or client 3, who does not; where the
\* reads are explored, client 1 or 2, who both exist.
ClientInputs == IF Reading THEN {1, 2} ELSE IF Daily THEN {1} ELSE {1, 3}
AssignedInputs == IF Daily THEN {2} ELSE UserIDs
FeedbackInputs == IF Rich \/ Detailed THEN {"nil", "ok"} ELSE {"ok"}
\* The bounds of a requested slot; a check-in or check-out is at any of Times.
SlotTimeInputs == IF Rich \/ Reading \/ Daily THEN Times ELSE {MaxTime}
SlotEndInputs == IF Daily THEN {MaxTime} ELSE SlotTimeInputs
TaskCounts == IF Daily THEN {1} ELSE 0..TasksPerSchedule

\* At most this many fields of an update request are set.
MaxUpdateFields == 2
\* At most this many tasks are submitted with a check-out.
MaxTaskUpdates == 2

NilSlot == [set |-> FALSE, From |-> 0, To |-> 0]
SlotInputs ==
    {NilSlot, [set |-> TRUE, From |-> 0, To |-> 1], [set |-> TRUE, From |-> MaxTime, To |-> 0]}
    \cup {[set |-> TRUE, From |-> f, To |-> t] : f \in SlotTimeInputs, t \in SlotTimeInputs}

FieldsSet(request) ==
    (IF request.ClientUserID # 0 THEN 1 ELSE 0)
    + (IF request.AssignedUserID # 0 THEN 1 ELSE 0)
    + (IF request.ServiceName # "" THEN 1 ELSE 0)
    + (IF request.VisitStatus # "" THEN 1 ELSE 0)
    + (IF request.ScheduledSlot.set THEN 1 ELSE 0)

UpdateRequests ==
    {request \in [ClientUserID : {0} \cup ClientInputs,
                  AssignedUserID : {0} \cup UserIDs,
                  ServiceName : {""} \cup ServiceNames,
                  VisitStatus : {""} \cup StatusLabels,
                  ScheduledSlot : SlotInputs] :
        FieldsSet(request) <= (IF Rich THEN MaxUpdateFields ELSE 1)}

CreateRequests ==
    [ClientUserID : ClientInputs,
     AssignedUserID : AssignedInputs,
     ServiceName : ServiceNames,
     ScheduledSlot : {[From |-> f, To |-> t] : f \in SlotTimeInputs, t \in SlotEndInputs},
     Tasks : TaskCounts]

\* The local clock is this far ahead of UTC.
Zones == {0, 1}
\* The orders in which a map of client identifiers may be visited.
Orders == {order \in [1..Cardinality(UserIDs) -> UserIDs] :
              \A i, j \in DOMAIN order : order[i] = order[j] => i = j}

TaskInputs ==
    [ID : TaskIDInputs, Status : {"completed"}, Done : {"true"}, Feedback : FeedbackInputs]

RECURSIVE SeqsUpTo(_, _)
SeqsUpTo(S, n) ==
    IF n = 0 THEN {<<>>}
    ELSE SeqsUpTo(S, n - 1)
         \cup {Append(q, x) : q \in {r \in SeqsUpTo(S, n - 1) : Len(r) = n - 1}, x \in S}

TaskLists == SeqsUpTo(TaskInputs, IF Detailed THEN MaxTaskUpdates ELSE 1)

\* The schedules a caller of the use case hands to CreateSchedule: any status
\* label, tasks with or without identifier (no identifier twice) and with any
\* status.
NewTaskInputs == [ID : {0} \cup TaskIDInputs, Status : {"pending", "completed"}]

NewSchedules ==
    [ClientUserID : ClientInputs,
     AssignedUserID : UserIDs,
     ServiceName : ServiceNames,
     ScheduledSlot : {[From |-> MaxTime, To |-> MaxTime]},
     VisitStatus : StatusLabels,
     Tasks : {taskList \in SeqsUpTo(NewTaskInputs, TasksPerSchedule) :
                \A i \in 1..Len(taskList), j \in 1..Len(taskList) :
                    (i # j /\ taskList[i].ID # 0) => taskList[i].ID # taskList[j].ID}]

\* The arguments of UpdateTaskStatus: done is a bool and feedback a string, so
\* neither is nil.
TaskStatusInputs == {"completed"}
DoneInputs == {"true", "false"}
FeedbackTexts == {"ok"}

(* ------------------------------- state -------------------------------- *)

NoCall == [op |-> "", sid |-> 0, kind |-> "", msg |-> "", wrote |-> FALSE]

Init ==
    /\ schedules = EmptyMap
    /\ tasks = EmptyMap
    /\ last = NoCall
    /\ pc = EmptyMap
    /\ call = EmptyMap
    /\ scope = "one"

InitPair ==
    /\ schedules = EmptyMap
    /\ tasks = EmptyMap
    /\ last = NoCall
    /\ pc = EmptyMap
    /\ call = EmptyMap
    /\ scope = "pair"

NoArguments ==
    [op |-> "", taskID |-> 0, taskList |-> <<>>, taskFaults |-> {}, returned |-> EmptyMap, again |-> FALSE]

InitTasks ==
    /\ schedules = EmptyMap
    /\ tasks = EmptyMap
    /\ last = NoCall
    /\ pc = EmptyMap
    /\ call = NoArguments
    /\ scope = "tasks"

\* An operation returns r; `noted` is what `call` holds afterwards.
Responded(op, sid, r, noted) ==
    /\ schedules' = r.schedules
    /\ tasks' = r.tasks
    /\ last' = [op |-> op, sid |-> sid, kind |-> r.err.kind, msg |-> r.err.msg,
                wrote |-> r.wrote]
    /\ call' = noted
    /\ UNCHANGED <<pc, scope>>

\* In scopes "reads" and "day" `call` holds what the last call returned when
\* that was a read, and NoRead otherwise.
NoRead == [op |-> "", result |-> ReadResult(NoError, NullSchedules, NullClients, FALSE)]

InitReads ==
    /\ schedules = EmptyMap
    /\ tasks = EmptyMap
    /\ last = NoCall
    /\ pc = EmptyMap
    /\ call = NoRead
    /\ scope = "reads"

InitDay ==
    /\ schedules = EmptyMap
    /\ tasks = EmptyMap
    /\ last = NoCall
    /\ pc = EmptyMap
    /\ call = NoRead
    /\ scope = "day"

\* In scope "tasks" `call` holds the arguments of the last call when that was a
\* successful EndSchedule or UpdateTaskStatus, and NoArguments otherwise.
Unrecorded == IF Detailed THEN NoArguments ELSE IF Reading \/ Daily THEN NoRead ELSE call

\* A read returns r and leaves the store alone.
Read(op, r) ==
    /\ last' = [op |-> op, sid |-> 0, kind |-> r.err.kind, msg |-> r.err.msg,
                wrote |-> FALSE]
    /\ call' = [op |-> op, result |-> r]
    /\ UNCHANGED <<schedules, tasks, pc, scope>>

Returned(op, sid, r) == Responded(op, sid, r, Unrecorded)

StartSchedule ==
    \E scheduleID \in 1..Capacity, timestamp \in Times, location \in LocationInputs,
       fault \in BOOLEAN :
        Returned("StartSchedule", scheduleID,
                 StartScheduleOp(schedules, tasks, scheduleID, timestamp, location, fault))

EndSchedule ==
    \E scheduleID \in 1..Capacity, timestamp \in Times, location \in LocationInputs,
       taskList \in TaskLists, fault \in BOOLEAN :
        \E taskFaults \in SUBSET (1..Len(taskList)) :
            LET r == EndScheduleOp(schedules, tasks, scheduleID, timestamp, location,
                                   taskList, fault, taskFaults)
            IN Responded("EndSchedule", scheduleID, r,
                         IF Detailed /\ r.err = NoError
                         THEN [NoArguments EXCEPT !.op = "EndSchedule",
                                                  !.taskList = taskList,
                                                  !.taskFaults = taskFaults,
                                                  !.returned =
                                                      EndScheduleReturnedTasks(tasks,
                                                                               scheduleID)]
                         ELSE Unrecorded)

UpdateSchedule ==
    \E scheduleID \in 1..Capacity, request \in UpdateRequests, fault \in BOOLEAN :
        Returned("UpdateSchedule", scheduleID,
                 ControllerUpdateSchedule(schedules, tasks, scheduleID, request, fault))

CreateSchedule ==
    /\ Cardinality(DOMAIN schedules) < Capacity
    /\ \E request \in CreateRequests, fault \in BOOLEAN, reparent \in BOOLEAN :
        Returned("CreateSchedule", 0,
                 ControllerCreateSchedule(schedules, tasks, request, fault, reparent))

Next ==
    \/ CreateSchedule
    \/ StartSchedule
    \/ EndSchedule
    \/ UpdateSchedule

Spec == Init /\ [][Next]_vars

UpdateTaskStatus ==
    \E taskID \in TaskIDInputs, status \in TaskStatusInputs, done \in DoneInputs,
       feedback \in FeedbackTexts, fault \in BOOLEAN :
        LET r == UpdateTaskStatusOp(schedules, tasks, taskID, status, done, feedback, fault)
            arguments == [NoArguments EXCEPT !.op = "UpdateTaskStatus",
                                             !.taskID = taskID,
                                             !.taskList = <<[ID |-> taskID,
                                                             Status |-> status,
                                                             Done |-> done,
                                                             Feedback |-> feedback]>>]
        IN Responded("UpdateTaskStatus", taskID, r,
                     IF r.err = NoError
                     THEN [arguments EXCEPT
                             !.returned = r.task,
                             !.again = /\ last.op = "UpdateTaskStatus"
                                       /\ last.kind = "ok"
                                       /\ call.op = "UpdateTaskStatus"
                                       /\ call.taskID = taskID
                                       /\ call.taskList = arguments.taskList]
                     ELSE Unrecorded)

NextTasks ==
    \/ CreateSchedule
    \/ StartSchedule
    \/ EndSchedule
    \/ UpdateSchedule
    \/ UpdateTaskStatus

SpecTasks == InitTasks /\ [][NextTasks]_vars

SpecPair == InitPair /\ [][Next]_vars

GetSchedulesWithClientInfo ==
    \E unavailable \in SUBSET Users, order \in Orders :
        Read("GetSchedulesWithClientInfo",
             GetSchedulesWithClientInfoOp(schedules, unavailable, order))

GetScheduleWithClientInfo ==
    \E id \in 1..Capacity, unavailable \in SUBSET Users :
        Read("GetScheduleWithClientInfo",
             GetScheduleWithClientInfoOp(schedules, id, unavailable))

GetTodaySchedules ==
    \E userID \in UserIDs, now \in Times, absent \in SUBSET Users :
        Read("GetTodaySchedules", GetTodaySchedulesOp(schedules, userID, now, absent))

GetTodaySchedulesByAssignedUserID ==
    \E assignedUserID \in UserIDs, now \in Times, zone \in Zones,
       absent \in SUBSET Users :
        \E page \in TodayPages(schedules, assignedUserID, now, zone) :
            Read("GetTodaySchedulesByAssignedUserID",
                 GetTodaySchedulesByAssignedUserIDOp(schedules, assignedUserID, absent, page))

GetTodaySchedulesWithClientInfo ==
    \E userID \in UserIDs, now \in Times, absent \in SUBSET Users,
       unavailable \in SUBSET Users, order \in Orders :
        Read("GetTodaySchedulesWithClientInfo",
             GetTodaySchedulesWithClientInfoOp(schedules, userID, now, absent,
                                               unavailable, order))

GetTodaySchedulesByAssignedUserIDWithClientInfo ==
    \E assignedUserID \in UserIDs, now \in Times, zone \in Zones,
       absent \in SUBSET Users, unavailable \in SUBSET Users, order \in Orders :
        \E page \in TodayPages(schedules, assignedUserID, now, zone) :
            Read("GetTodaySchedulesByAssignedUserIDWithClientInfo",
                 GetTodaySchedulesByAssignedUserIDWithClientInfoOp(
                     schedules, assignedUserID, absent, page, unavailable, order))

NextReads ==
    \/ CreateSchedule
    \/ GetSchedulesWithClientInfo
    \/ GetScheduleWithClientInfo
    \/ GetTodaySchedules
    \/ GetTodaySchedulesByAssignedUserID
    \/ GetTodaySchedulesWithClientInfo
    \/ GetTodaySchedulesByAssignedUserIDWithClientInfo

SpecReads == InitReads /\ [][NextReads]_vars

NextDay ==
    \/ CreateSchedule
    \/ GetTodaySchedulesByAssignedUserID

SpecDay == InitDay /\ [][NextDay]_vars

(* -------------------- interleaved StartSchedule calls ------------------ *)

\* The callers whose StartSchedule calls interleave.
Procs == {1, 2}

NoStart ==
    [sid |-> 0, timestamp |-> 0, location |-> [Lat |-> 0, Long |-> 0],
     assigned |-> 0, seen |-> {}, err |-> ""]

InitConc ==
    /\ schedules = EmptyMap
    /\ tasks = EmptyMap
    /\ last = NoCall
    /\ pc = [p \in Procs |-> "idle"]
    /\ call = [p \in Procs |-> NoStart]
    /\ scope = "pair"

StartReturns(p, c, err) ==
    /\ pc' = [pc EXCEPT ![p] = "idle"]
    /\ call' = [call EXCEPT ![p] = [c EXCEPT !.err = err.kind]]

\* The call is received and reads its schedule; the status and time checks
\* are made on what was read.
StartGetScheduleByID(p) ==
    /\ pc[p] = "idle"
    /\ \E scheduleID \in 1..Capacity, timestamp \in Times, location \in LocationInputs :
        LET c == [NoStart EXCEPT !.sid = scheduleID, !.timestamp = timestamp,
                                 !.location = location]
        IN IF scheduleID \notin DOMAIN schedules
           THEN StartReturns(p, c, AppError("NotFound", ""))
           ELSE IF StartChecks(schedules[scheduleID], timestamp) # NoError
           THEN StartReturns(p, c, StartChecks(schedules[scheduleID], timestamp))
           ELSE /\ pc' = [pc EXCEPT ![p] = "GetSchedulesInProgress"]
                /\ call' = [call EXCEPT ![p] =
                              [c EXCEPT !.assigned = schedules[scheduleID].assigned_user_id]]
    /\ UNCHANGED <<schedules, tasks, last, scope>>

StartGetSchedulesInProgress(p) ==
    /\ pc[p] = "GetSchedulesInProgress"
    /\ LET c == [call[p] EXCEPT !.seen =
                    GetSchedulesInProgressByAssignedUserID(schedules, call[p].assigned)]
       IN IF AnotherInProgress(c.seen)
          THEN StartReturns(p, c, AppError("ValidationError", "in_progress_exists"))
          ELSE /\ pc' = [pc EXCEPT ![p] = "UpdateSchedule"]
               /\ call' = [call EXCEPT ![p] = c]
    /\ UNCHANGED <<schedules, tasks, last, scope>>

StartUpdateSchedule(p) ==
    /\ pc[p] = "UpdateSchedule"
    /\ \E fault \in BOOLEAN :
        IF fault
        THEN /\ StartReturns(p, call[p], AppError("UnknownError", ""))
             /\ UNCHANGED schedules
        ELSE /\ StartReturns(p, call[p], NoError)
             /\ schedules' = RepoUpdateSchedule(schedules, call[p].sid,
                                 StartUpdates(call[p].timestamp, call[p].location))
    /\ UNCHANGED <<tasks, last, scope>>

NextConc ==
    \/ CreateSchedule
    \/ \E p \in Procs :
        \/ StartGetScheduleByID(p)
        \/ StartGetSchedulesInProgress(p)
        \/ StartUpdateSchedule(p)

SpecConc == InitConc /\ [][NextConc]_vars

\* ---------------------------------------------------------------------------
\* EndSchedule and UpdateSchedule calls of two callers on one schedule,
\* interleaved at the granularity of their store calls. Nothing is locked and
\* no transaction spans a call: each store call is one step.

NoRequest ==
    [ClientUserID |-> 0, AssignedUserID |-> 0, ServiceName |-> "", VisitStatus |-> "",
     ScheduledSlot |-> NilSlot]

NoRace ==
    [op |-> "", sid |-> 0, timestamp |-> 0, location |-> [Lat |-> 0, Long |-> 0],
     taskList |-> <<>>, request |-> NoRequest, err |-> ""]

InitRace ==
    /\ schedules = EmptyMap
    /\ tasks = EmptyMap
    /\ last = NoCall
    /\ pc = [p \in Procs |-> "idle"]
    /\ call = [p \in Procs |-> NoRace]
    /\ scope = "race"

\* The call of p returns err; of its arguments the schedule is remembered.
RaceReturns(p, op, sid, err) ==
    /\ pc' = [pc EXCEPT ![p] = "idle"]
    /\ call' = [call EXCEPT ![p] = [NoRace EXCEPT !.op = op, !.sid = sid,
                                                  !.err = err.kind]]

\* EndSchedule is received and reads its schedule; the status check is made
\* on what was read.
EndGetScheduleByID(p) ==
    /\ pc[p] = "idle"
    /\ \E scheduleID \in 1..Capacity, timestamp \in Times, location \in LocationInputs,
          taskList \in TaskLists :
        IF scheduleID \notin DOMAIN schedules
        THEN RaceReturns(p, "EndSchedule", scheduleID, AppError("NotFound", ""))
        ELSE IF NotInProgress(schedules[scheduleID])
        THEN RaceReturns(p, "EndSchedule", scheduleID,
                         AppError("ValidationError", "not_in_progress"))
        ELSE /\ pc' = [pc EXCEPT ![p] = "End.UpdateSchedule"]
             /\ call' = [call EXCEPT ![p] =
                           [NoRace EXCEPT !.op = "EndSchedule", !.sid = scheduleID,
                                          !.timestamp = timestamp,
                                          !.location = location,
                                          !.taskList = taskList]]
    /\ UNCHANGED <<schedules, tasks, last, scope>>

EndUpdateSchedule(p) ==
    /\ pc[p] = "End.UpdateSchedule"
    /\ \E fault \in BOOLEAN :
        IF fault
        THEN /\ RaceReturns(p, "EndSchedule", call[p].sid, AppError("UnknownError", ""))
             /\ UNCHANGED schedules
        ELSE /\ pc' = [pc EXCEPT ![p] = "End.UpdateTask"]
             /\ call' = call
             /\ schedules' = RepoUpdateSchedule(schedules, call[p].sid,
                                 EndUpdates(call[p].timestamp, call[p].location))
    /\ UNCHANGED <<tasks, last, scope>>

\* The loop over the task updates, whose errors are logged and dropped.
EndUpdateTask(p) ==
    /\ pc[p] = "End.UpdateTask"
    /\ \E taskFaults \in SUBSET (1..Len(call[p].taskList)) :
        tasks' = UpdateTasksFrom(tasks, call[p].taskList, taskFaults, 1)
    /\ RaceReturns(p, "EndSchedule", call[p].sid, NoError)
    /\ UNCHANGED <<schedules, last, scope>>

\* The interleaved updates are those that carry a visit_status.
RacingUpdateRequests == {request \in UpdateRequests : request.VisitStatus # ""}

\* UpdateSchedule is received and reads its schedule; the checks of the
\* controller and of the use case are made on the request and on what was
\* read.
UpdateGetScheduleByID(p) ==
    /\ pc[p] = "idle"
    /\ \E scheduleID \in 1..Capacity, request \in RacingUpdateRequests :
        LET checked == ControllerUpdateSchedule(schedules, tasks, scheduleID, request, FALSE)
        IN IF checked.err # NoError
           THEN RaceReturns(p, "UpdateSchedule", scheduleID, checked.err)
           ELSE /\ pc' = [pc EXCEPT ![p] = "Update.UpdateSchedule"]
                /\ call' = [call EXCEPT ![p] =
                              [NoRace EXCEPT !.op = "UpdateSchedule", !.sid = scheduleID,
                                             !.request = request]]
    /\ UNCHANGED <<schedules, tasks, last, scope>>

UpdateUpdateSchedule(p) ==
    /\ pc[p] = "Update.UpdateSchedule"
    /\ \E fault \in BOOLEAN :
        IF fault
        THEN /\ RaceReturns(p, "UpdateSchedule", call[p].sid, AppError("UnknownError", ""))
             /\ UNCHANGED schedules
        ELSE /\ RaceReturns(p, "UpdateSchedule", call[p].sid, NoError)
             /\ schedules' = RepoUpdateSchedule(schedules, call[p].sid,
                                 ControllerUpdates(call[p].request))
    /\ UNCHANGED <<tasks, last, scope>>

NextRace ==
    \/ CreateSchedule
    \/ StartSchedule
    \/ \E p \in Procs :
        \/ EndGetScheduleByID(p)
        \/ EndUpdateSchedule(p)
        \/ EndUpdateTask(p)
        \/ UpdateGetScheduleByID(p)
        \/ UpdateUpdateSchedule(p)

SpecRace == InitRace /\ [][NextRace]_vars

(* ------------------------------- claims ------------------------------- *)

Terminal == {"completed", "cancelled"}

InProgressOf(assignedUserID) ==
    {id \in DOMAIN schedules :
        /\ schedules[id].assigned_user_id = assignedUserID
        /\ schedules[id].visit_status = "in_progress"}

\* C1: after any sequence of operations run one at a time, every assignee has
\* at most one schedule in_progress.
C1_SingleOccupancy ==
    \A a \in UserIDs : Cardinality(InProgressOf(a)) <= 1

\* C2: what the engine does guarantee under interleaving: a StartSchedule call
\* reaches its write, and returns success, only after its own read found no
\* schedule in_progress for the assignee, and a schedule whose start succeeded
\* is in_progress. (That two such calls both succeed, leaving two schedules
\* in_progress for one assignee, is the state C2_TwoInProgress.)
C2_SuccessAfterEmptyRead ==
    \A p \in DOMAIN pc :
        /\ (pc[p] = "UpdateSchedule" \/ call[p].err = "ok") => call[p].seen = {}
        /\ call[p].err = "ok" => schedules[call[p].sid].visit_status = "in_progress"

C2_TwoInProgress ==
    \E p \in DOMAIN pc, q \in DOMAIN pc :
        /\ pc[p] = "idle" /\ pc[q] = "idle"
        /\ call[p].err = "ok" /\ call[q].err = "ok"
        /\ call[p].sid # call[q].sid
        /\ call[p].assigned = call[q].assigned
        /\ Cardinality(InProgressOf(call[p].assigned)) = 2

UnknownUserNamed(request) ==
    \/ request.ClientUserID \notin Users \cup {0}
    \/ request.AssignedUserID \notin Users \cup {0}

\* C3 (as claimed): once a schedule is completed or cancelled, every
\* UpdateSchedule carrying a different visit_status fails with ValidationError,
\* and no operation changes the stored visitStatus.
C3_TerminalUpdateIsValidationError ==
    /\ [](\A id \in DOMAIN schedules :
            schedules[id].visit_status \in Terminal =>
                \A request \in UpdateRequests, fault \in BOOLEAN :
                    request.VisitStatus \notin {"", schedules[id].visit_status} =>
                        UpdateScheduleOp(schedules, tasks, id, ControllerUpdates(request),
                                         fault).err.kind = "ValidationError")
    /\ [][\A id \in DOMAIN schedules :
            schedules[id].visit_status \in Terminal =>
                schedules'[id].visit_status = schedules[id].visit_status]_vars

\* C3 (amended): once a schedule is completed or cancelled, every
\* UpdateSchedule carrying a different visit_status fails and writes nothing,
\* with ValidationError unless the same update names a client or assigned user
\* that does not exist, which fails it with NotFound first (through the
\* controller, a malformed slot in the same request fails it with
\* ValidationError before that); and no operation changes the stored
\* visitStatus.
C3_TerminalStatusKept ==
    /\ [](\A id \in DOMAIN schedules :
            schedules[id].visit_status \in Terminal =>
                \A request \in UpdateRequests, fault \in BOOLEAN :
                    request.VisitStatus \notin {"", schedules[id].visit_status} =>
                        LET r == UpdateScheduleOp(schedules, tasks, id,
                                                  ControllerUpdates(request), fault)
                            viaController ==
                                ControllerUpdateSchedule(schedules, tasks, id, request, fault)
                        IN /\ r.err.kind = (IF UnknownUserNamed(request)
                                            THEN "NotFound" ELSE "ValidationError")
                           /\ ~r.wrote
                           /\ r.schedules = schedules
                           /\ viaController.err.kind \in {r.err.kind, "ValidationError"}
                           /\ ~viaController.wrote
                           /\ viaController.schedules = schedules)
    /\ [][\A id \in DOMAIN schedules :
            schedules[id].visit_status \in Terminal =>
                schedules'[id].visit_status = schedules[id].visit_status]_vars

C3_TerminalUpdateRejected ==
    /\ last.op = "UpdateSchedule"
    /\ last.kind = "ValidationError"
    /\ last.msg \in {"from_completed", "from_cancelled"}
    /\ last.sid \in DOMAIN schedules
    /\ schedules[last.sid].visit_status \in Terminal

\* C4: no operation moves a schedule to completed from any status but
\* in_progress; a completed schedule was in_progress the step before.
C4_CompletedOnlyFromInProgress ==
    [][\A id \in DOMAIN schedules :
        (schedules'[id].visit_status = "completed"
            /\ schedules[id].visit_status # "completed")
        => schedules[id].visit_status = "in_progress"]_vars

\* C5: the only changes of visitStatus are upcoming -> in_progress by
\* StartSchedule, in_progress -> completed by EndSchedule and upcoming ->
\* cancelled by UpdateSchedule.
C5_OnlyDrawnTransitions ==
    [][\A id \in DOMAIN schedules :
        LET from == schedules[id].visit_status
            to == schedules'[id].visit_status
        IN from # to =>
            \/ from = "upcoming" /\ to = "in_progress" /\ last'.op = "StartSchedule"
            \/ from = "in_progress" /\ to = "completed" /\ last'.op = "EndSchedule"
            \/ from = "upcoming" /\ to = "cancelled" /\ last'.op = "UpdateSchedule"]_vars

Checkin(schedule) ==
    <<schedule.checkin_time, schedule.checkin_location_lat, schedule.checkin_location_long>>

Checkout(schedule) ==
    <<schedule.checkout_time, schedule.checkout_location_lat,
      schedule.checkout_location_long>>

\* C6: once a schedule's check-in time and location are recorded, no operation
\* gives them another value.
C6_CheckinWriteOnce ==
    [][\A id \in DOMAIN schedules :
        schedules[id].checkin_time # 0 =>
            Checkin(schedules'[id]) = Checkin(schedules[id])]_vars

\* C7: once a schedule's check-out time and location are recorded, no operation
\* gives them another value.
C7_CheckoutWriteOnce ==
    [][\A id \in DOMAIN schedules :
        schedules[id].checkout_time # 0 =>
            Checkout(schedules'[id]) = Checkout(schedules[id])]_vars

\* A schedule that was checked out and has since been updated with success.
C7_UpdatedAfterCheckout ==
    /\ last.op = "UpdateSchedule"
    /\ last.kind = "ok"
    /\ last.sid \in DOMAIN schedules
    /\ schedules[last.sid].checkout_time # 0

Unchanged(r) == r.schedules = schedules /\ r.tasks = tasks /\ ~r.wrote

\* C8: StartSchedule on an existing schedule that is not upcoming fails with
\* ValidationError, issues no store write and changes nothing.
C8_StartNotUpcomingRejected ==
    \A id \in DOMAIN schedules, timestamp \in Times, location \in Locations,
       fault \in BOOLEAN :
        schedules[id].visit_status # "upcoming" =>
            LET r == StartScheduleOp(schedules, tasks, id, timestamp, location, fault)
            IN r.err.kind = "ValidationError" /\ Unchanged(r)

C8_StartRejectedOnCompleted ==
    /\ last.op = "StartSchedule"
    /\ last.kind = "ValidationError"
    /\ last.msg = "not_upcoming"
    /\ ~last.wrote
    /\ last.sid \in DOMAIN schedules
    /\ schedules[last.sid].visit_status = "completed"

OthersInProgress(id) == InProgressOf(schedules[id].assigned_user_id) \ {id}

\* C9: StartSchedule(S) fails with ValidationError and changes nothing when
\* another schedule of S's assignee is in_progress; it succeeds, leaving S
\* in_progress, when S is upcoming, the timestamp is not before the slot's
\* start, no schedule of the assignee is in_progress and the write does not
\* fail.
C9_StartIffAssigneeFree ==
    \A id \in DOMAIN schedules, timestamp \in Times, location \in Locations,
       fault \in BOOLEAN :
        LET r == StartScheduleOp(schedules, tasks, id, timestamp, location, fault)
        IN /\ OthersInProgress(id) # {} =>
                r.err.kind = "ValidationError" /\ Unchanged(r)
           /\ (/\ schedules[id].visit_status = "upcoming"
               /\ timestamp >= schedules[id].scheduled_slot_from
               /\ InProgressOf(schedules[id].assigned_user_id) = {}
               /\ ~fault)
              => /\ r.err = NoError
                 /\ r.schedules[id].visit_status = "in_progress"

\* An upcoming schedule whose start was refused because its assignee has
\* another schedule in_progress.
C9_StartRefusedWhileOccupied ==
    /\ last.op = "StartSchedule"
    /\ last.kind = "ValidationError"
    /\ last.msg = "in_progress_exists"
    /\ last.sid \in DOMAIN schedules
    /\ schedules[last.sid].visit_status = "upcoming"
    /\ OthersInProgress(last.sid) # {}

C11_StartSetsOnlyCheckin ==
    \A id \in DOMAIN schedules, timestamp \in Times, location \in Locations :
        LET r == StartScheduleOp(schedules, tasks, id, timestamp, location, FALSE)
        IN r.err = NoError =>
            /\ r.tasks = tasks
            /\ r.schedules =
                 [schedules EXCEPT ![id] =
                    [@ EXCEPT !.visit_status = "in_progress",
                              !.checkin_time = timestamp,
                              !.checkin_location_lat = location.Lat,
                              !.checkin_location_long = location.Long]]

\* One of two stored schedules was started with success.
C11_StartedBesideAnother ==
    /\ last.op = "StartSchedule"
    /\ last.kind = "ok"
    /\ Cardinality(DOMAIN schedules) > 1
    /\ DOMAIN tasks # {}
    /\ schedules[last.sid].visit_status = "in_progress"
    /\ schedules[last.sid].checkin_time # 0
    /\ schedules[last.sid].checkin_location_lat # 0

C12_FailsUnset(r) ==
    /\ r.err.kind = "ValidationError"
    /\ \A id \in DOMAIN schedules :
        schedules[id].visit_status # "in_progress" =>
            /\ r.schedules[id].visit_status = schedules[id].visit_status
            /\ Checkout(r.schedules[id]) = <<0, 0, 0>>
    /\ r.tasks = tasks

\* C12 (as claimed): EndSchedule on a stored schedule that is not in_progress
\* fails with ValidationError, leaves checkoutTime/checkoutLocation unset and
\* visitStatus unchanged, and applies none of the task updates.
C12_EndNotInProgressLeavesCheckoutUnset ==
    \A id \in DOMAIN schedules :
        schedules[id].visit_status # "in_progress" =>
            \A timestamp \in Times, location \in Locations, taskList \in TaskLists,
               fault \in BOOLEAN :
                \A taskFaults \in SUBSET (1..Len(taskList)) :
                    C12_FailsUnset(EndScheduleOp(schedules, tasks, id, timestamp, location,
                                     taskList, fault, taskFaults))

C12_FailsUnchanged(r) == r.err.kind = "ValidationError" /\ Unchanged(r)

\* C12 (amended): EndSchedule on a stored schedule that is not in_progress fails
\* with ValidationError, writes nothing, leaves checkoutTime/checkoutLocation
\* and visitStatus as they were (the check-out of a schedule completed by an
\* earlier EndSchedule stays recorded), and applies none of the task updates.
C12_EndNotInProgressRejected ==
    \A id \in DOMAIN schedules :
        schedules[id].visit_status # "in_progress" =>
            \A timestamp \in Times, location \in Locations, taskList \in TaskLists,
               fault \in BOOLEAN :
                \A taskFaults \in SUBSET (1..Len(taskList)) :
                    C12_FailsUnchanged(EndScheduleOp(schedules, tasks, id, timestamp, location,
                                     taskList, fault, taskFaults))

\* An EndSchedule refused on a schedule that an earlier EndSchedule completed.
C12_EndRefusedOnCompleted ==
    /\ last.op = "EndSchedule"
    /\ last.kind = "ValidationError"
    /\ last.msg = "not_in_progress"
    /\ ~last.wrote
    /\ schedules[last.sid].visit_status = "completed"
    /\ schedules[last.sid].checkout_time # 0
    /\ DOMAIN tasks # {}

\* The updates of task t that a check-out submits and the store does not fail.
AppliedTo(taskList, taskFaults, t) ==
    {i \in 1..Len(taskList) : taskList[i].ID = t /\ i \notin taskFaults}

LastOf(indices) == CHOOSE i \in indices : \A j \in indices : j <= i

\* The row of task t after a check-out: the values of the last update of t that
\* was applied, or the row as it was.
TaskAfterEnd(row, taskList, taskFaults, t) ==
    IF AppliedTo(taskList, taskFaults, t) = {}
    THEN row
    ELSE LET task == taskList[LastOf(AppliedTo(taskList, taskFaults, t))]
         IN [row EXCEPT !.status = task.Status, !.done = task.Done,
                        !.feedback = task.Feedback]

CheckedOut(r, id, timestamp, location) ==
    /\ r.err = NoError
    /\ DOMAIN r.schedules = DOMAIN schedules
    /\ r.schedules[id].visit_status = "completed"
    /\ Checkout(r.schedules[id]) = <<timestamp, location.Lat, location.Long>>
    /\ DOMAIN r.tasks = DOMAIN tasks

\* C13: after a successful EndSchedule in which every task update succeeds, the
\* schedule is completed with checkoutTime = timestamp and checkoutLocation =
\* location, every task named in the updates holds the submitted status, done
\* and feedback (of its last update, when it is named more than once), and
\* every task not named is unchanged.
C13_EndAppliesTaskUpdates ==
    \A id \in DOMAIN schedules, timestamp \in Times, location \in Locations,
       taskList \in TaskLists :
        (/\ schedules[id].visit_status = "in_progress"
         /\ \A i \in 1..Len(taskList) : taskList[i].ID \in DOMAIN tasks)
        => LET r == EndScheduleOp(schedules, tasks, id, timestamp, location, taskList,
                                  FALSE, {})
           IN /\ CheckedOut(r, id, timestamp, location)
              /\ \A t \in DOMAIN tasks :
                    r.tasks[t] = TaskAfterEnd(tasks[t], taskList, {}, t)

\* A check-out whose one task update was applied while another task was not
\* named.
C13_EndedWithTaskUpdate ==
    /\ last.op = "EndSchedule"
    /\ last.kind = "ok"
    /\ call.op = "EndSchedule"
    /\ call.taskFaults = {}
    /\ Len(call.taskList) > 0
    /\ \A i \in 1..Len(call.taskList) :
        /\ call.taskList[i].ID \in DOMAIN tasks
        /\ tasks[call.taskList[i].ID].status = call.taskList[i].Status
        /\ tasks[call.taskList[i].ID].done = call.taskList[i].Done
    /\ \E t \in DOMAIN tasks :
        /\ \A i \in 1..Len(call.taskList) : call.taskList[i].ID # t
        /\ tasks[t].status = "pending"
    /\ schedules[last.sid].visit_status = "completed"
    /\ schedules[last.sid].checkout_time # 0

\* C14: when the store fails the update of a task during EndSchedule, the
\* schedule is still completed with its check-out recorded, every other
\* update of the list, later ones included, is applied, and EndSchedule
\* returns no error.
C14_EndSkipsFailedTaskUpdates ==
    \A id \in DOMAIN schedules, timestamp \in Times, location \in Locations,
       taskList \in TaskLists :
        \A taskFaults \in SUBSET (1..Len(taskList)) :
            (schedules[id].visit_status = "in_progress" /\ taskFaults # {})
            => LET r == EndScheduleOp(schedules, tasks, id, timestamp, location,
                                      taskList, FALSE, taskFaults)
               IN /\ CheckedOut(r, id, timestamp, location)
                  /\ \A t \in DOMAIN tasks :
                        r.tasks[t] = TaskAfterEnd(tasks[t], taskList, taskFaults, t)

\* A check-out whose first task update failed and whose second, of another
\* task, was applied.
C14_EndedAfterFailedTaskUpdate ==
    /\ last.op = "EndSchedule"
    /\ last.kind = "ok"
    /\ call.op = "EndSchedule"
    /\ Len(call.taskList) = 2
    /\ call.taskFaults = {1}
    /\ call.taskList[1].ID \in DOMAIN tasks
    /\ call.taskList[2].ID \in DOMAIN tasks
    /\ call.taskList[1].ID # call.taskList[2].ID
    /\ tasks[call.taskList[1].ID].status = "pending"
    /\ tasks[call.taskList[2].ID].status = "completed"
    /\ schedules[last.sid].visit_status = "completed"
    /\ schedules[last.sid].checkout_time # 0

UnknownUser(userID) == userID \notin Users

\* C15: CreateSchedule whose client or assigned user does not exist fails with
\* NotFound naming the missing role, the client first, and writes nothing:
\* the stored schedules and tasks are unchanged. (Through the controller a
\* malformed request is refused with ValidationError before that.)
C15_CreateUnknownUserNotFound ==
    /\ \A newSchedule \in NewSchedules, fault \in BOOLEAN, reparent \in BOOLEAN :
        (UnknownUser(newSchedule.ClientUserID) \/ UnknownUser(newSchedule.AssignedUserID))
        => LET r == CreateScheduleOp(schedules, tasks, newSchedule, fault, reparent)
           IN /\ r.err = AppError("NotFound",
                                  IF UnknownUser(newSchedule.ClientUserID)
                                  THEN "client" ELSE "assigned")
              /\ Unchanged(r)
    /\ \A request \in CreateRequests, fault \in BOOLEAN, reparent \in BOOLEAN :
        (UnknownUser(request.ClientUserID) \/ UnknownUser(request.AssignedUserID))
        => LET r == ControllerCreateSchedule(schedules, tasks, request, fault, reparent)
           IN /\ r.err.kind \in {"NotFound", "ValidationError"}
              /\ Unchanged(r)

\* A CreateSchedule refused for its assigned user while a schedule is stored.
C15_CreateRefusedForAssignedUser ==
    /\ last.op = "CreateSchedule"
    /\ last.kind = "NotFound"
    /\ last.msg = "assigned"
    /\ ~last.wrote
    /\ DOMAIN schedules # {}
    /\ DOMAIN tasks # {}

\* The identifier under which the i-th task of a new schedule is stored.
StoredTaskID(taskList, i) ==
    IF taskList[i].ID = 0 THEN NewTaskID(tasks, taskList, i) ELSE taskList[i].ID

BoundAfter(supplied, stored) == IF supplied # 0 THEN supplied ELSE stored

\* C17: every stored schedule has scheduledSlot.from <= scheduledSlot.to
\* after any sequence of CreateSchedule and UpdateSchedule requests; a create
\* with from > to, and an update that supplies one or both bounds and would
\* make from > to, is refused with ValidationError and nothing stored changes.
C17_SlotOrdered ==
    /\ \A id \in DOMAIN schedules :
        schedules[id].scheduled_slot_from <= schedules[id].scheduled_slot_to
    /\ \A request \in CreateRequests, fault \in BOOLEAN, reparent \in BOOLEAN :
        request.ScheduledSlot.From > request.ScheduledSlot.To
        => LET r == ControllerCreateSchedule(schedules, tasks, request, fault, reparent)
           IN r.err.kind = "ValidationError" /\ Unchanged(r)
    /\ \A id \in DOMAIN schedules, request \in UpdateRequests, fault \in BOOLEAN :
        (/\ request.ScheduledSlot.set
         /\ BoundAfter(request.ScheduledSlot.From, schedules[id].scheduled_slot_from)
            > BoundAfter(request.ScheduledSlot.To, schedules[id].scheduled_slot_to))
        => LET r == ControllerUpdateSchedule(schedules, tasks, id, request, fault)
           IN r.err.kind = "ValidationError" /\ Unchanged(r)

\* An update with From after To was refused while a schedule is stored whose
\* slot has From before To.
C17_InvertedSlotRefused ==
    /\ last.op = "UpdateSchedule"
    /\ last.kind = "ValidationError"
    /\ last.msg = "from_after_to"
    /\ ~last.wrote
    /\ \E id \in DOMAIN schedules :
        schedules[id].scheduled_slot_from < schedules[id].scheduled_slot_to

InvalidStatusNamed(request) == request.VisitStatus \notin ValidStatuses \cup {""}

\* C18 (as claimed): UpdateSchedule whose visit_status is not one of upcoming,
\* in_progress, completed, cancelled fails with ValidationError whatever the
\* schedule's current status, and writes nothing.
C18_InvalidStatusIsValidationError ==
    \A id \in DOMAIN schedules, request \in UpdateRequests, fault \in BOOLEAN :
        InvalidStatusNamed(request)
        => LET r == ControllerUpdateSchedule(schedules, tasks, id, request, fault)
           IN r.err.kind = "ValidationError" /\ Unchanged(r)

\* C18 (amended): UpdateSchedule whose visit_status is not one of the four
\* labels fails and writes nothing, whatever the schedule's current status:
\* with ValidationError, unless the same update names a client or assigned
\* user that does not exist, which fails it with NotFound first (through the
\* controller, a malformed slot in the same request fails it with
\* ValidationError before that).
C18_InvalidStatusRejected ==
    \A id \in DOMAIN schedules, request \in UpdateRequests, fault \in BOOLEAN :
        InvalidStatusNamed(request)
        => LET r == UpdateScheduleOp(schedules, tasks, id, ControllerUpdates(request), fault)
               viaController == ControllerUpdateSchedule(schedules, tasks, id, request, fault)
           IN /\ r.err.kind = (IF UnknownUserNamed(request)
                               THEN "NotFound" ELSE "ValidationError")
              /\ ~UnknownUserNamed(request) => r.err.msg = "invalid_status"
              /\ Unchanged(r)
              /\ viaController.err.kind \in {r.err.kind, "ValidationError"}
              /\ Unchanged(viaController)

\* An update with an unknown label was refused on a schedule in progress.
C18_InvalidStatusRefused ==
    /\ last.op = "UpdateSchedule"
    /\ last.kind = "ValidationError"
    /\ last.msg = "invalid_status"
    /\ ~last.wrote
    /\ last.sid \in DOMAIN schedules
    /\ schedules[last.sid].visit_status = "in_progress"

\* C19: UpdateSchedule that carries a client_user_id or an assigned_user_id
\* of no existing user fails with NotFound, naming the client first, and
\* leaves the stored schedule, its clientUserId and assignedUserId included,
\* unchanged. (Through the controller a malformed slot in the same request
\* fails it with ValidationError before that.)
C19_UpdateUnknownUserNotFound ==
    \A id \in 1..Capacity, request \in UpdateRequests, fault \in BOOLEAN :
        UnknownUserNamed(request)
        => LET r == UpdateScheduleOp(schedules, tasks, id, ControllerUpdates(request), fault)
               viaController == ControllerUpdateSchedule(schedules, tasks, id, request, fault)
           IN /\ r.err.kind = "NotFound"
              /\ id \in DOMAIN schedules =>
                    r.err.msg = (IF UnknownUser(request.ClientUserID) /\ request.ClientUserID # 0
                                 THEN "client" ELSE "assigned")
              /\ Unchanged(r)
              /\ viaController.err.kind \in {"NotFound", "ValidationError"}
              /\ Unchanged(viaController)

\* An update naming an unknown assigned user was refused on a stored schedule,
\* whose client and assigned user both exist.
C19_UpdateRefusedForAssignedUser ==
    /\ last.op = "UpdateSchedule"
    /\ last.kind = "NotFound"
    /\ last.msg = "assigned"
    /\ ~last.wrote
    /\ last.sid \in DOMAIN schedules
    /\ ~UnknownUser(schedules[last.sid].client_user_id)
    /\ ~UnknownUser(schedules[last.sid].assigned_user_id)

\* C20: UpdateTaskStatus is idempotent: for any stored task and any status,
\* done and feedback, a second call with the same arguments right after a
\* successful first one leaves the task's stored status, done and feedback as
\* the first left them, which are the arguments, and both calls return that
\* same task.
C20_UpdateTaskStatusIdempotent ==
    /\ [](\A taskID \in DOMAIN tasks, status \in {"pending", "completed", "skipped"},
             done \in DoneInputs, feedback \in {"", "ok"} :
            LET first == UpdateTaskStatusOp(schedules, tasks, taskID, status, done,
                                            feedback, FALSE)
                second == UpdateTaskStatusOp(first.schedules, first.tasks, taskID, status,
                                             done, feedback, FALSE)
            IN /\ first.err = NoError /\ second.err = NoError
               /\ second.tasks = first.tasks
               /\ second.schedules = first.schedules
               /\ second.task = first.task
               /\ first.task = first.tasks[taskID]
               /\ first.task.status = status
               /\ first.task.done = done
               /\ first.task.feedback = feedback)
    /\ [][(/\ last'.op = "UpdateTaskStatus"
           /\ last'.kind = "ok"
           /\ call'.again)
          => /\ tasks' = tasks
             /\ schedules' = schedules
             /\ call'.returned = call.returned
             /\ call'.returned = tasks'[call'.taskID]]_vars

\* The second of two successful UpdateTaskStatus calls with the same
\* arguments has returned, on a task that differs from a new one.
C20_UpdatedTaskStatusTwice ==
    /\ last.op = "UpdateTaskStatus"
    /\ last.kind = "ok"
    /\ call.again
    /\ call.taskID \in DOMAIN tasks
    /\ tasks[call.taskID].status = "completed"
    /\ tasks[call.taskID].done = "false"

\* The clients of the schedules `ids` whose lookup succeeds.
ResolvableClients(ids, unavailable) ==
    {schedules[id].client_user_id : id \in ids} \ {u \in UserIDs : ~Lookup(u, unavailable)}

\* The read r, made while `unavailable` cannot be looked up, returned without
\* error its schedules and exactly one user per resolvable client of them.
EnrichedOnce(r, unavailable) ==
    /\ r.err = NoError
    /\ ~r.clients.null
    /\ \A i, j \in 1..Len(r.clients.list) :
        r.clients.list[i] = r.clients.list[j] => i = j
    /\ {r.clients.list[i] : i \in 1..Len(r.clients.list)}
       = ResolvableClients(r.schedules.ids, unavailable)
    /\ r.schedules.ids = {} => r.clients.list = <<>>

\* C21: GetSchedulesWithClientInfo, GetTodaySchedulesWithClientInfo and
\* GetTodaySchedulesByAssignedUserIDWithClientInfo return, besides the
\* schedules, exactly one user per distinct client of the returned schedules
\* whose lookup succeeds: no client twice, a client whose lookup fails left
\* out without failing the call, and for no schedules an empty list that is
\* not nil.
C21_OneClientPerResolvableClient ==
    \A unavailable \in SUBSET Users, order \in Orders :
        /\ EnrichedOnce(GetSchedulesWithClientInfoOp(schedules, unavailable, order),
                        unavailable)
        /\ GetSchedulesWithClientInfoOp(schedules, unavailable, order).schedules.ids
           = DOMAIN schedules
        /\ \A userID \in Users, now \in Times :
            LET r == GetTodaySchedulesWithClientInfoOp(schedules, userID, now, {},
                                                      unavailable, order)
            IN /\ EnrichedOnce(r, unavailable)
               /\ r.schedules = GetTodaySchedulesOp(schedules, userID, now, {}).schedules
        /\ \A assignedUserID \in Users, now \in Times, zone \in Zones :
            \A page \in TodayPages(schedules, assignedUserID, now, zone) :
                LET r == GetTodaySchedulesByAssignedUserIDWithClientInfoOp(
                             schedules, assignedUserID, {}, page, unavailable, order)
                IN /\ EnrichedOnce(r, unavailable)
                   /\ r.schedules.ids = page

\* GetSchedulesWithClientInfo returned two schedules of two clients and only
\* one user, the lookup of the other client having failed.
C21_ClientLeftOut ==
    /\ last.op = "GetSchedulesWithClientInfo"
    /\ last.kind = "ok"
    /\ call.op = "GetSchedulesWithClientInfo"
    /\ Cardinality({schedules[id].client_user_id : id \in call.result.schedules.ids}) = 2
    /\ Len(call.result.clients.list) = 1

\* C22: GetScheduleWithClientInfo returns an error and neither a schedule nor
\* a client when the schedule does not exist; when the schedule exists but the
\* lookup of its client fails it returns the schedule, a nil client and no
\* error (and the client with the schedule when the lookup succeeds).
C22_ClientLookupFailureTolerated ==
    \A id \in 1..Capacity, unavailable \in SUBSET Users :
        LET r == GetScheduleWithClientInfoOp(schedules, id, unavailable)
        IN IF id \notin DOMAIN schedules
           THEN /\ r.err.kind = "NotFound"
                /\ r.schedules.null
                /\ r.clients.null
           ELSE /\ r.err = NoError
                /\ r.schedules = SchedulesOf({id})
                /\ r.clients = (IF Lookup(schedules[id].client_user_id, unavailable)
                                THEN ClientsOf(<<schedules[id].client_user_id>>)
                                ELSE NullClients)

\* GetScheduleWithClientInfo returned a stored schedule and no client.
C22_ScheduleWithoutClient ==
    /\ last.op = "GetScheduleWithClientInfo"
    /\ last.kind = "ok"
    /\ call.op = "GetScheduleWithClientInfo"
    /\ ~call.result.schedules.null
    /\ call.result.schedules.ids \subseteq DOMAIN schedules
    /\ call.result.schedules.ids # {}
    /\ call.result.clients.null

\* The read r was refused for its user before the schedule store was queried.
RefusedUnqueried(r) ==
    /\ r.err.kind = "NotFound"
    /\ ~r.queried
    /\ r.schedules.null
    /\ r.clients.null

\* C23: GetTodaySchedules, GetTodaySchedulesByAssignedUserID and their
\* client-info variants fail with NotFound, and do not query the schedule
\* store, when the lookup of the user they name fails; otherwise they query it
\* and succeed.
C23_UnknownUserRefusedBeforeQuery ==
    \A userID \in UserIDs, absent \in SUBSET Users, now \in Times, zone \in Zones,
       unavailable \in SUBSET Users, order \in Orders :
        \A page \in TodayPages(schedules, userID, now, zone) :
            LET today == GetTodaySchedulesOp(schedules, userID, now, absent)
                assigned == GetTodaySchedulesByAssignedUserIDOp(schedules, userID, absent,
                                                                page)
                todayInfo == GetTodaySchedulesWithClientInfoOp(schedules, userID, now,
                                                               absent, unavailable, order)
                assignedInfo == GetTodaySchedulesByAssignedUserIDWithClientInfoOp(
                                    schedules, userID, absent, page, unavailable, order)
            IN IF Lookup(userID, absent)
               THEN \A r \in {today, assigned, todayInfo, assignedInfo} :
                        r.err = NoError /\ r.queried /\ ~r.schedules.null
               ELSE \A r \in {today, assigned, todayInfo, assignedInfo} :
                        RefusedUnqueried(r)

\* GetTodaySchedules was refused for a user whose lookup failed, while
\* schedules are stored.
C23_TodayRefusedForUnknownUser ==
    /\ last.op = "GetTodaySchedules"
    /\ last.kind = "NotFound"
    /\ call.op = "GetTodaySchedules"
    /\ ~call.result.queried
    /\ DOMAIN schedules # {}

\* The stored schedules of an assignee whose slot starts within the local
\* calendar day of now.
TodayOfAssignee(assignedUserID, now, zone) ==
    {id \in DOMAIN schedules :
        /\ schedules[id].assigned_user_id = assignedUserID
        /\ schedules[id].scheduled_slot_from >= LocalDayStart(now, zone)
        /\ schedules[id].scheduled_slot_from < LocalDayStart(now, zone) + DayLength}

\* C24: GetTodaySchedulesByAssignedUserID returns every stored schedule whose
\* assigned user matches and whose slot starts within the current calendar
\* day, however many there are.
C24_TodayByAssigneeComplete ==
    \A assignedUserID \in Users, now \in Times, zone \in Zones :
        \A page \in TodayPages(schedules, assignedUserID, now, zone) :
            LET r == GetTodaySchedulesByAssignedUserIDOp(schedules, assignedUserID, {}, page)
            IN /\ r.err = NoError
               /\ r.schedules.ids = TodayOfAssignee(assignedUserID, now, zone)

CheckFailures == {"NotFound", "ValidationError"}

\* C25: a rejected UpdateSchedule applies nothing: when a check fails (unknown
\* client or assigned user, invalid status label, leaving a terminal status;
\* in the controller, a malformed slot or no field), no stored schedule or
\* task changes and nothing is written, whatever valid fields the same update
\* carries.
C25_RejectedUpdateAppliesNothing ==
    /\ [](\A id \in 1..Capacity, request \in UpdateRequests, fault \in BOOLEAN :
            LET r == UpdateScheduleOp(schedules, tasks, id, ControllerUpdates(request), fault)
                viaController == ControllerUpdateSchedule(schedules, tasks, id, request, fault)
            IN /\ r.err.kind \in CheckFailures => Unchanged(r)
               /\ viaController.err.kind \in CheckFailures => Unchanged(viaController))
    /\ [][(last'.op = "UpdateSchedule" /\ last'.kind \in CheckFailures)
          => (schedules' = schedules /\ tasks' = tasks /\ ~last'.wrote)]_vars

\* An UpdateSchedule was refused for its status label; an update naming that
\* label together with another, existing assigned user is refused the same way.
C25_RefusedWithValidField ==
    /\ last.op = "UpdateSchedule"
    /\ last.kind = "ValidationError"
    /\ last.msg = "invalid_status"
    /\ ~last.wrote
    /\ last.sid \in DOMAIN schedules
    /\ \E request \in UpdateRequests :
        /\ FieldsSet(request) = 2
        /\ InvalidStatusNamed(request)
        /\ request.AssignedUserID \in Users \ {schedules[last.sid].assigned_user_id}
        /\ ControllerUpdateSchedule(schedules, tasks, last.sid, request, FALSE).err
           = AppError(last.kind, last.msg)

C27_ReturnedScheduleReflectsTaskUpdates ==
    (last.op = "EndSchedule" /\ last.kind = "ok" /\ call.op = "EndSchedule")
    => \A t \in DOMAIN call.returned :
        AppliedTo(call.taskList, call.taskFaults, t) # {}
        => LET task == call.taskList[LastOf(AppliedTo(call.taskList, call.taskFaults, t))]
           IN /\ call.returned[t].status = task.Status
              /\ call.returned[t].done = task.Done
              /\ call.returned[t].feedback = task.Feedback

\* C28: UpdateTaskStatus has no precondition on the schedule: for a stored
\* task it succeeds and overwrites status, done and feedback whatever the
\* visitStatus of the owning schedule, and changes no schedule, no other task
\* and no other field of the task.
C28_UpdateTaskStatusUnconditional ==
    \A taskID \in DOMAIN tasks, status \in {"pending", "completed", "skipped"},
       done \in DoneInputs, feedback \in {"", "ok"} :
        LET r == UpdateTaskStatusOp(schedules, tasks, taskID, status, done, feedback, FALSE)
        IN /\ r.err = NoError
           /\ r.schedules = schedules
           /\ DOMAIN r.tasks = DOMAIN tasks
           /\ \A t \in DOMAIN tasks \ {taskID} : r.tasks[t] = tasks[t]
           /\ r.tasks[taskID] = [tasks[taskID] EXCEPT !.status = status, !.done = done,
                                                      !.feedback = feedback]

\* UpdateTaskStatus has overwritten a task of a cancelled schedule that has
\* another task, still as created.
C28_UpdatedTaskOfCancelledSchedule ==
    /\ last.op = "UpdateTaskStatus"
    /\ last.kind = "ok"
    /\ call.op = "UpdateTaskStatus"
    /\ call.taskID \in DOMAIN tasks
    /\ schedules[tasks[call.taskID].schedule_id].visit_status = "cancelled"
    /\ tasks[call.taskID].status = "completed"
    /\ \E t \in DOMAIN tasks \ {call.taskID} :
        /\ tasks[t].schedule_id = tasks[call.taskID].schedule_id
        /\ tasks[t].status = "pending"

\* The status and the visit fields of schedule id are in store what they are.
VisitKept(store, id) ==
    /\ store[id].visit_status = schedules[id].visit_status
    /\ Checkin(store[id]) = Checkin(schedules[id])
    /\ Checkout(store[id]) = Checkout(schedules[id])

\* C29 (as claimed): UpdateSchedule carrying the visit_status a completed or
\* cancelled schedule already has is accepted, and the stored visitStatus,
\* check-in and check-out are the same afterwards.
C29_SameTerminalStatusAccepted ==
    \A id \in DOMAIN schedules, request \in UpdateRequests :
        (schedules[id].visit_status \in Terminal
         /\ request.VisitStatus = schedules[id].visit_status)
        => LET r == UpdateScheduleOp(schedules, tasks, id, ControllerUpdates(request), FALSE)
           IN r.err = NoError /\ VisitKept(r.schedules, id)

\* C29 (amended): UpdateSchedule carrying the visit_status a completed or
\* cancelled schedule already has passes the status rules: it is accepted
\* unless the same update names a client or assigned user that does not exist,
\* which fails it with NotFound (or, through the controller, carries a
\* malformed slot, which fails it with ValidationError), or the write fails;
\* in every case the stored visitStatus, check-in and check-out are the same
\* afterwards.
C29_SameTerminalStatusPassesStatusRules ==
    \A id \in DOMAIN schedules, request \in UpdateRequests, fault \in BOOLEAN :
        (schedules[id].visit_status \in Terminal
         /\ request.VisitStatus = schedules[id].visit_status)
        => LET r == UpdateScheduleOp(schedules, tasks, id, ControllerUpdates(request), fault)
               viaController == ControllerUpdateSchedule(schedules, tasks, id, request, fault)
           IN /\ r.err.kind = (IF UnknownUserNamed(request) THEN "NotFound"
                               ELSE IF fault THEN "UnknownError" ELSE "ok")
              /\ VisitKept(r.schedules, id)
              /\ viaController.err.kind \in {r.err.kind, "ValidationError"}
              /\ VisitKept(viaController.schedules, id)

\* An UpdateSchedule was accepted on a completed schedule, as is one that
\* carries visit_status = completed alone.
C29_CompletedUpdatedToCompleted ==
    /\ last.op = "UpdateSchedule"
    /\ last.kind = "ok"
    /\ last.sid \in DOMAIN schedules
    /\ schedules[last.sid].visit_status = "completed"
    /\ schedules[last.sid].checkin_time # 0
    /\ schedules[last.sid].checkout_time # 0
    /\ \E request \in UpdateRequests :
        /\ FieldsSet(request) = 1
        /\ request.VisitStatus = "completed"
        /\ ControllerUpdateSchedule(schedules, tasks, last.sid, request, FALSE).err = NoError

\* The slot of an update request is absent or has both bounds, in order.
SlotWellFormed(request) ==
    request.ScheduledSlot.set =>
        /\ request.ScheduledSlot.From # 0
        /\ request.ScheduledSlot.To # 0
        /\ request.ScheduledSlot.From <= request.ScheduledSlot.To

\* C30: an UpdateSchedule on a completed or cancelled schedule is rejected
\* with ValidationError also when it carries no visit_status but an existing
\* client or assigned user, a service name or a well-formed slot, and changes
\* nothing.
C30_TerminalScheduleImmutable ==
    \A id \in DOMAIN schedules, request \in UpdateRequests, fault \in BOOLEAN :
        (/\ schedules[id].visit_status \in Terminal
         /\ request.VisitStatus = ""
         /\ FieldsSet(request) >= 1
         /\ ~UnknownUserNamed(request)
         /\ SlotWellFormed(request))
        => LET r == ControllerUpdateSchedule(schedules, tasks, id, request, fault)
           IN r.err.kind = "ValidationError" /\ Unchanged(r)

\* The stored tasks of schedule id.
TasksOfSchedule(id) == {t \in DOMAIN tasks : tasks[t].schedule_id = id}

\* C31: every stored schedule has at least one task in every reachable
\* state: a create request without tasks is refused with ValidationError and
\* writes nothing, and no step removes a task or moves it to another schedule.
C31_EveryScheduleHasATask ==
    /\ [](/\ \A id \in DOMAIN schedules : TasksOfSchedule(id) # {}
          /\ \A request \in CreateRequests, fault \in BOOLEAN, reparent \in BOOLEAN :
                request.Tasks = 0
                => LET r == ControllerCreateSchedule(schedules, tasks, request, fault,
                                                     reparent)
                   IN r.err.kind = "ValidationError" /\ Unchanged(r))
    /\ [][\A t \in DOMAIN tasks :
            /\ t \in DOMAIN tasks'
            /\ tasks'[t].schedule_id = tasks[t].schedule_id]_vars

\* A create request without tasks was refused while a schedule with its tasks
\* is stored.
C31_CreateWithoutTasksRefused ==
    /\ last.op = "CreateSchedule"
    /\ last.kind = "ValidationError"
    /\ last.msg = "no_tasks"
    /\ ~last.wrote
    /\ DOMAIN schedules # {}
    /\ \A id \in DOMAIN schedules : TasksOfSchedule(id) # {}

\* The stored schedules of a client whose slot starts within the local
\* calendar day of now: from local midnight up to the next local midnight.
TodayOfClient(userID, now, zone) ==
    {id \in DOMAIN schedules :
        /\ schedules[id].client_user_id = userID
        /\ schedules[id].scheduled_slot_from >= LocalDayStart(now, zone)
        /\ schedules[id].scheduled_slot_from < LocalDayStart(now, zone) + DayLength}

\* C32: GetTodaySchedules(userId) returns exactly the stored schedules whose
\* client is userId and whose slot starts in the half-open interval from
\* local midnight of today to local midnight of tomorrow, wherever the clock
\* of the server is set.
C32_TodayIsTheLocalDay ==
    \A userID \in Users, now \in Times, zone \in Zones :
        LET r == GetTodaySchedulesOp(schedules, userID, now, {})
        IN /\ r.err = NoError
           /\ r.schedules.ids = TodayOfClient(userID, now, zone)

\* C33: EndSchedule(S, ..., taskUpdates) modifies only tasks that belong to
\* S: a task update that names a task of another schedule leaves that task
\* as it was.
C33_EndScheduleKeepsOtherTasks ==
    [][last'.op = "EndSchedule"
       => \A t \in DOMAIN tasks :
              tasks[t].schedule_id # last'.sid
              => t \in DOMAIN tasks' /\ tasks'[t] = tasks[t]]_vars

\* C35: when two StartSchedule calls for the same upcoming schedule
\* interleave at the granularity of their store calls, at most one returns
\* success and writes the check-in (the other fails with ValidationError):
\* no two callers have both returned success from StartSchedule on the same
\* schedule.
C35_OneStartWins ==
    \A p \in DOMAIN pc, q \in DOMAIN pc :
        (/\ p # q
         /\ pc[p] = "idle" /\ pc[q] = "idle"
         /\ call[p].sid # 0
         /\ call[p].sid = call[q].sid
         /\ call[p].err = "ok")
        => call[q].err # "ok"

\* C36: visitStatus and the timestamps agree in every reachable state: an
\* upcoming schedule has neither check-in nor check-out, an in_progress
\* schedule has a check-in and no check-out, a completed schedule has both.
C36_StatusAgreesWithTimestamps ==
    \A id \in DOMAIN schedules :
        LET s == schedules[id]
        IN /\ s.visit_status = "upcoming" => s.checkin_time = 0 /\ s.checkout_time = 0
           /\ s.visit_status = "in_progress" => s.checkin_time # 0 /\ s.checkout_time = 0
           /\ s.visit_status = "completed" => s.checkin_time # 0 /\ s.checkout_time # 0

\* C37: a completed schedule's check-out is not earlier than its check-in:
\* EndSchedule, the one operation that records a check-out, never records one
\* earlier than the check-in.
C37_CheckoutNotBeforeCheckin ==
    \A id \in DOMAIN schedules :
        (schedules[id].visit_status = "completed" /\ schedules[id].checkout_time # 0)
        => schedules[id].checkout_time >= schedules[id].checkin_time

\* C38: a schedule with a recorded check-in has checkinTime >=
\* scheduledSlot.from in every reachable state, also after UpdateSchedule
\* changes the slot of a started schedule.
C38_CheckinNotBeforeSlot ==
    \A id \in DOMAIN schedules :
        schedules[id].checkin_time # 0
        => schedules[id].checkin_time >= schedules[id].scheduled_slot_from

\* C39: changing assigned_user_id through UpdateSchedule never gives an
\* assignee two in_progress schedules: an in_progress schedule is not
\* reassigned to a user who already has a schedule in_progress.
C39_ReassignmentKeepsSingleOccupancy ==
    [][\A id \in DOMAIN schedules :
        (/\ schedules'[id].assigned_user_id # schedules[id].assigned_user_id
         /\ schedules[id].visit_status = "in_progress")
        => InProgressOf(schedules'[id].assigned_user_id) = {}]_vars

\* C34: under any interleaving of the store calls of concurrent operations
\* on one schedule, once the stored visitStatus is completed or cancelled it
\* never changes.
C34_TerminalStatusKeptWhenRacing ==
    [][\A id \in DOMAIN schedules :
        schedules[id].visit_status \in Terminal
        => schedules'[id].visit_status = schedules[id].visit_status]_vars
====
